---- MODULE Spec2Model ----
(***************************************************************************)
(* Model of training_utils.py: the epoch runner train_epoch, the SAM       *)
(* variant SAM_train_epoch, the batch-norm recalibration bn_update and     *)
(* the pure function do_report.                                            *)
(*                                                                         *)
(* Numbers are exact integers or rationals <<numerator, denominator>>;     *)
(* floating-point rounding is not modelled.  A model has two scalar        *)
(* parameters, "conv.weight" (SI-marked) and "fc.weight".                  *)
(***************************************************************************)
EXTENDS Integers, Sequences, FiniteSets, TLC

\* ------------------------------------------------------------------ bounds
MaxBatches == 4
MaxSaveFreq == 4
MaxEpoch == 11000
MaxBnBatches == 3
MaxTarget == 3
MaxTrainEpochs == 100
MaxLr == 2
MaxParams == 3
MaxPredBatches == 3

\* ------------------------------------------------------- helper arithmetic
None == -1
NaN == -1000

Min(a, b) == IF a <= b THEN a ELSE b

\* np.sqrt on a sum of squares (exact on perfect squares)
Sqrt(x) == CHOOSE q \in 0..x : q * q <= x /\ x < (q + 1) * (q + 1)

RECURSIVE SumSeq(_)
SumSeq(s) == IF s = <<>> THEN 0 ELSE Head(s) + SumSeq(Tail(s))

\* equality of two rationals <<p, q>> with q > 0
RatEq(a, b) == a[1] * b[2] = b[1] * a[2]

\* ------------------------------------------------------------------ state
VARIABLES
    \* arguments of train_epoch / SAM_train_epoch
    loader, regression, verbose, subset, fbgd, save_freq_int, si_pnorm_0,
    \* locals of the epoch runner
    loss_sum, correct, verb_stage, save_ind, num_objects_current,
    num_batches, wrapper, reduction, i, batch, loss,
    \* the model
    training, params,
    \* observable effects
    calls, checkpoints, stdout,
    \* control
    pc, error, result, history,
    \* bn_update
    bn_loader, modules, bn_training, momenta, n, bn_k, bn_pc, bn_forwards,
    bn_before,
    \* do_report
    epoch, report, rep_pc,
    \* the SAM batch body and the parameter utilities
    r, alpha, snapshot_fn, grad_alias, saved_params, saved_grads, grad_norm,
    first_g, second_g, before,
    \* predictions
    test_loader, seed, rng, pred_k, pred_pc, pred_trace,
    \* d_schedule
    lr_init, epochs, p, lr, prev_lr, sched_pc

argVars == <<loader, regression, verbose, subset, fbgd, save_freq_int, si_pnorm_0>>
localVars == <<loss_sum, correct, verb_stage, save_ind, num_objects_current,
               num_batches, wrapper, reduction, i, batch, loss>>
modelVars == <<training, params>>
effectVars == <<calls, checkpoints, stdout>>
ctlVars == <<pc, error, result, history>>
trainVars == <<argVars, localVars, modelVars, effectVars, ctlVars>>
bnVars == <<bn_loader, modules, bn_training, momenta, n, bn_k, bn_pc,
            bn_forwards, bn_before>>
repVars == <<epoch, report, rep_pc>>
samVars == <<r, alpha, snapshot_fn, grad_alias, saved_params, saved_grads,
             grad_norm, first_g, second_g, before>>
predVars == <<test_loader, seed, rng, pred_k, pred_pc, pred_trace>>
schedVars == <<lr_init, epochs, p, lr, prev_lr, sched_pc>>
utilVars == <<samVars, predVars, schedVars>>
vars == <<trainVars, bnVars, repVars, utilVars>>

\* ------------------------------------------------------------ input domain
\* a batch: its size, the mean per-example loss the criterion computes on it,
\* the number of arg-max hits, and the gradient its backward pass deposits
BatchSet == { [size |-> 1, mean_loss |-> 2, hits |-> 1, g |-> 1],
              [size |-> 2, mean_loss |-> 1, hits |-> 1, g |-> 2] }

NoBatch == [size |-> 0, mean_loss |-> 0, hits |-> 0, g |-> 0]

Loaders == UNION { [1..k -> BatchSet] : k \in 0..MaxBatches }

\* subset is given in hundredths (50 is subset=0.5); None is subset=None
SubsetVals == {None, 50, 100}

SiVals == {None, 2}

InitParams == << [name |-> "conv.weight", data |-> 3, grad |-> 0],
                 [name |-> "fc.weight",   data |-> 1, grad |-> 0] >>

EpochNo == 7

\* ------------------------------------------------------------- the model
\* "conv" in n
IsConv(name) == name \in {"conv.weight", "layer1.conv1.weight"}

ConvSquares(ps) == [k \in 1..Len(ps) |->
                      IF IsConv(ps[k].name) THEN ps[k].data * ps[k].data ELSE 0]

HasNaN(ps) == \E k \in 1..Len(ps) : IsConv(ps[k].name) /\ ps[k].data = NaN

get_si_params_norm(ps) == IF HasNaN(ps) THEN NaN ELSE Sqrt(SumSeq(ConvSquares(ps)))

\* p.data *= si_pnorm_0 / si_pnorm; a zero norm gives an infinite
\* coefficient (numpy division) and 0 * inf = nan
fix_si_pnorm(ps, target) ==
    LET si_pnorm == get_si_params_norm(ps)
    IN [k \in 1..Len(ps) |->
          IF ~IsConv(ps[k].name) THEN ps[k]
          ELSE IF si_pnorm = NaN \/ si_pnorm = 0
               THEN [ps[k] EXCEPT !.data = NaN]
               ELSE [ps[k] EXCEPT !.data = (ps[k].data * target) \div si_pnorm]]

\* loss.backward(): gradients accumulate into p.grad
backward(ps, g) == [k \in 1..Len(ps) |-> [ps[k] EXCEPT !.grad = @ + g]]

\* optimizer.step(): plain gradient descent with unit learning rate
optimizer_step(ps) ==
    [k \in 1..Len(ps) |->
       IF ps[k].data = NaN THEN ps[k] ELSE [ps[k] EXCEPT !.data = @ - ps[k].grad]]

\* optimizer.zero_grad()
zero_grad(ps) == [k \in 1..Len(ps) |-> [ps[k] EXCEPT !.grad = 0]]

\* criterion(model, input, target, reduction): the loss value
criterion(b, red) == IF red = "sum" THEN b.mean_loss * b.size ELSE b.mean_loss

\* the batches the (possibly islice'd) loader yields
Yielded == IF subset = None THEN loader
           ELSE SubSeq(loader, 1, Min(num_batches, Len(loader)))

\* ------------------------------------------------------------ train_epoch
IdleBn == /\ bn_loader = <<>> /\ modules = <<>> /\ bn_training = FALSE
          /\ momenta = <<>> /\ n = 0 /\ bn_k = 0 /\ bn_pc = "idle"
          /\ bn_forwards = 0 /\ bn_before = <<>>

IdleRep == epoch = 0 /\ report = FALSE /\ rep_pc = "idle"

IdleSam == /\ r = 0 /\ alpha = 0 /\ snapshot_fn = "none" /\ grad_alias = FALSE
           /\ saved_params = <<>> /\ saved_grads = <<>> /\ grad_norm = 0
           /\ first_g = <<>> /\ second_g = <<>> /\ before = <<>>

IdlePred == /\ test_loader = <<>> /\ seed = None /\ rng = 0 /\ pred_k = 0
            /\ pred_pc = "idle" /\ pred_trace = <<>>

IdleSched == /\ lr_init = 0 /\ epochs = 0 /\ p = 0 /\ lr = <<0, 1>>
             /\ prev_lr = <<0, 1>> /\ sched_pc = "idle"

IdleUtil == IdleSam /\ IdlePred /\ IdleSched

FreshLocals == /\ loss_sum = 0 /\ correct = 0 /\ verb_stage = 0 /\ save_ind = 0
               /\ num_objects_current = 0 /\ num_batches = 0
               /\ wrapper = "DataLoader" /\ reduction = "mean"
               /\ i = -1 /\ batch = NoBatch /\ loss = 0

TrainInit ==
    /\ loader \in Loaders
    /\ regression \in BOOLEAN
    /\ verbose \in BOOLEAN
    /\ subset \in SubsetVals
    /\ fbgd \in BOOLEAN
    /\ save_freq_int \in 0..MaxSaveFreq
    /\ si_pnorm_0 \in SiVals
    /\ FreshLocals
    /\ training = FALSE /\ params = InitParams
    /\ calls = <<>> /\ checkpoints = <<>> /\ stdout = <<>>
    /\ pc = "call" /\ error = "none" /\ result = <<>> /\ history = <<>>
    /\ IdleBn /\ IdleRep /\ IdleUtil

\* lines 142-160
TrainStart ==
    /\ pc = "call"
    /\ loss_sum' = 0 /\ correct' = 0 /\ verb_stage' = 0 /\ save_ind' = 0
    /\ num_objects_current' = 0
    /\ training' = TRUE
    /\ num_batches' = IF subset = None THEN Len(loader)
                      ELSE (Len(loader) * subset) \div 100
    /\ wrapper' = IF verbose THEN "tqdm"
                  ELSE IF subset # None THEN "islice" ELSE "DataLoader"
    /\ reduction' = IF fbgd THEN "sum" ELSE "mean"
    /\ params' = zero_grad(params)
    /\ calls' = Append(calls, "zero_grad")
    /\ pc' = "for"
    /\ UNCHANGED <<argVars, i, batch, loss, checkpoints, stdout, error, result,
                   history, bnVars, repVars, utilVars>>

\* line 162: the loop head takes the next batch or leaves the loop
ForNext ==
    /\ pc = "for"
    /\ IF i + 1 < Len(Yielded)
       THEN /\ i' = i + 1
            /\ batch' = Yielded[i + 2]
            /\ pc' = "criterion"
       ELSE /\ pc' = "tail"
            /\ UNCHANGED <<i, batch>>
    /\ UNCHANGED <<argVars, loss_sum, correct, verb_stage, save_ind,
                   num_objects_current, num_batches, wrapper, reduction, loss,
                   modelVars, effectVars, error, result, history, bnVars, repVars, utilVars>>

\* line 167
Criterion ==
    /\ pc = "criterion"
    /\ loss' = criterion(batch, reduction)
    /\ calls' = Append(calls, "forward")
    /\ pc' = "update"
    /\ UNCHANGED <<argVars, loss_sum, correct, verb_stage, save_ind,
                   num_objects_current, num_batches, wrapper, reduction, i, batch,
                   modelVars, checkpoints, stdout, error, result, history,
                   bnVars, repVars, utilVars>>

\* line 181 without the weighting by the batch size
LossIncrement_Unweighted == loss

\* line 170 / line 181: what one batch adds to loss_sum
LossIncrement == IF fbgd THEN loss ELSE loss * batch.size

\* lines 174-179: the calls of the mini-batch branch
StepCalls == IF si_pnorm_0 # None
             THEN <<"backward", "step", "zero_grad", "fix_si_pnorm">>
             ELSE <<"backward", "step", "zero_grad">>

\* lines 174-179: the parameters after the mini-batch branch
StepParams ==
    LET stepped == zero_grad(optimizer_step(backward(params, batch.g)))
    IN IF si_pnorm_0 # None THEN fix_si_pnorm(stepped, si_pnorm_0) ELSE stepped

\* lines 169-181
Update ==
    /\ pc = "update"
    /\ loss_sum' = loss_sum + LossIncrement
    /\ IF fbgd
       THEN IF wrapper # "DataLoader"
            THEN \* len(loader.dataset) on an islice or tqdm object
                 /\ error' = "AttributeError"
                 /\ pc' = "error"
                 /\ UNCHANGED <<params, calls>>
            ELSE /\ params' = backward(params, batch.g)
                 /\ calls' = Append(calls, "backward")
                 /\ pc' = "account"
                 /\ UNCHANGED error
       ELSE /\ params' = StepParams
            /\ calls' = calls \o StepCalls
            /\ pc' = "account"
            /\ UNCHANGED error
    /\ UNCHANGED <<argVars, correct, verb_stage, save_ind, num_objects_current,
                   num_batches, wrapper, reduction, i, batch, loss, training,
                   checkpoints, stdout, result, history, bnVars, repVars, utilVars>>

\* lines 183-187
Account ==
    /\ pc = "account"
    /\ correct' = IF regression THEN correct ELSE correct + batch.hits
    /\ num_objects_current' = num_objects_current + batch.size
    /\ pc' = "log"
    /\ UNCHANGED <<argVars, loss_sum, verb_stage, save_ind, num_batches, wrapper,
                   reduction, i, batch, loss, modelVars, effectVars, error,
                   result, history, bnVars, repVars, utilVars>>

\* line 189
LogDue == verbose /\ 10 * (i + 1) >= (verb_stage + 1) * num_batches

\* lines 189-198
Log ==
    /\ pc = "log"
    /\ IF LogDue
       THEN /\ stdout' = Append(stdout, [stage |-> verb_stage + 1,
                                         loss |-> <<loss_sum, num_objects_current>>,
                                         acc |-> <<100 * correct, num_objects_current>>])
            /\ verb_stage' = verb_stage + 1
       ELSE UNCHANGED <<stdout, verb_stage>>
    /\ pc' = "save"
    /\ UNCHANGED <<argVars, loss_sum, correct, save_ind, num_objects_current,
                   num_batches, wrapper, reduction, i, batch, loss, modelVars,
                   calls, checkpoints, error, result, history, bnVars, repVars, utilVars>>

\* line 200 without the cap on the last segment
SaveDue_NoCap == /\ save_freq_int > 0
                 /\ save_freq_int * (i + 1) >= (save_ind + 1) * num_batches

\* line 200
SaveDue == /\ save_freq_int > 0
           /\ save_freq_int * (i + 1) >= (save_ind + 1) * num_batches
           /\ save_ind + 1 < save_freq_int

\* lines 103-107 with the file named after the following segment
save_checkpoint_int_NextIndex(ep, index, ps) ==
    [epoch |-> ep, index |-> index + 1,
     state_dict |-> [k \in 1..Len(ps) |-> ps[k].data]]

\* lines 103-107
save_checkpoint_int(ep, index, ps) ==
    [epoch |-> ep, index |-> index,
     state_dict |-> [k \in 1..Len(ps) |-> ps[k].data]]

\* lines 200-208
Save ==
    /\ pc = "save"
    /\ IF SaveDue
       THEN /\ checkpoints' = Append(checkpoints,
                                     save_checkpoint_int(EpochNo, save_ind + 1, params))
            /\ calls' = Append(calls, "save")
            /\ save_ind' = save_ind + 1
       ELSE UNCHANGED <<checkpoints, calls, save_ind>>
    /\ pc' = "for"
    /\ UNCHANGED <<argVars, loss_sum, correct, verb_stage, num_objects_current,
                   num_batches, wrapper, reduction, i, batch, loss, modelVars,
                   stdout, error, result, history, bnVars, repVars, utilVars>>

\* lines 211-213 with the step taken in either mode
TailCalls_Always == <<"step", "zero_grad">>

\* lines 211-213: the calls after the loop
TailCalls == IF fbgd THEN <<"step", "zero_grad">> ELSE <<>>

\* lines 211-216; line 216 names model_name, which is not defined
AfterLoop ==
    /\ pc = "tail"
    /\ calls' = calls \o TailCalls
    /\ params' = IF fbgd THEN zero_grad(optimizer_step(params)) ELSE params
    /\ IF fbgd /\ si_pnorm_0 # None
       THEN error' = "NameError" /\ pc' = "error"
       ELSE pc' = "return" /\ UNCHANGED error
    /\ UNCHANGED <<argVars, localVars, training, checkpoints, stdout, result,
                   history, bnVars, repVars, utilVars>>

\* lines 218-222
Return ==
    /\ pc = "return"
    /\ IF num_objects_current = 0
       THEN /\ error' = "ZeroDivisionError"
            /\ pc' = "error"
            /\ UNCHANGED <<result, calls>>
       ELSE /\ result' = << [loss |-> <<loss_sum, num_objects_current>>,
                             accuracy |-> IF regression THEN <<>>
                                          ELSE <<100 * correct, num_objects_current>>,
                             weights_norm |-> get_si_params_norm(params)] >>
            /\ calls' = Append(calls, "return")
            /\ pc' = "done"
            /\ UNCHANGED error
    /\ UNCHANGED <<argVars, localVars, modelVars, checkpoints, stdout, history,
                   bnVars, repVars, utilVars>>

\* what a caller observes of a finished call
Outcome == [result |-> result, error |-> error, calls |-> calls,
            checkpoints |-> checkpoints,
            state_dict |-> [k \in 1..Len(params) |-> params[k].data]]

\* the caller repeats the call on a fresh copy of the model with the same
\* arguments except verbose
Rerun ==
    /\ pc \in {"done", "error"}
    /\ history = <<>>
    /\ history' = <<Outcome>>
    /\ verbose' = ~verbose
    /\ loss_sum' = 0 /\ correct' = 0 /\ verb_stage' = 0 /\ save_ind' = 0
    /\ num_objects_current' = 0 /\ num_batches' = 0
    /\ wrapper' = "DataLoader" /\ reduction' = "mean"
    /\ i' = -1 /\ batch' = NoBatch /\ loss' = 0
    /\ training' = FALSE /\ params' = InitParams
    /\ calls' = <<>> /\ checkpoints' = <<>> /\ stdout' = <<>>
    /\ pc' = "call" /\ error' = "none" /\ result' = <<>>
    /\ UNCHANGED <<loader, regression, subset, fbgd, save_freq_int, si_pnorm_0,
                   bnVars, repVars, utilVars>>

TrainNext == \/ TrainStart \/ ForNext \/ Criterion \/ Update \/ Account
             \/ Log \/ Save \/ AfterLoop \/ Return \/ Rerun

SpecTrain == TrainInit /\ [][TrainNext]_vars

\* ------------------------------------------------- claims about train_epoch
\* the loop over the batches has been left
LoopDone == \/ pc \in {"tail", "return", "done"}
            \/ pc = "error" /\ error \in {"NameError", "ZeroDivisionError"}

\* the segment indices of the checkpoints written so far, in writing order
SavedIndices == [k \in 1..Len(checkpoints) |-> checkpoints[k].index]

UpTo(m) == [k \in 1..m |-> k]

Positions(e) == {k \in 1..Len(calls) : calls[k] = e}

\* C1 as stated: once a train_epoch run with save_freq_int > 0 has iterated
\* over its num_batches >= 1 batches, the checkpoints written carry exactly
\* the indices 1, ..., save_freq_int-1.
C1_Original ==
    (LoopDone /\ save_freq_int > 0 /\ num_batches >= 1)
        => SavedIndices = UpTo(save_freq_int - 1)

\* C1 amended: once a train_epoch run with save_freq_int > 0 has iterated
\* over its num_batches >= 1 batches, the checkpoints written carry exactly
\* the indices 1, ..., min(num_batches, save_freq_int-1), one each and in
\* this order (so save_freq_int-1 of them when num_batches >=
\* save_freq_int-1), and index save_freq_int is never written.
C1_MidEpochCheckpoints ==
    /\ (LoopDone /\ save_freq_int > 0 /\ num_batches >= 1)
          => SavedIndices = UpTo(Min(num_batches, save_freq_int - 1))
    /\ \A k \in 1..Len(checkpoints) : checkpoints[k].index # save_freq_int

C1_Witness ==
    /\ pc = "done" /\ save_freq_int = 4 /\ num_batches = 4
    /\ SavedIndices = <<1, 2, 3>>

\* C2: with si_pnorm_0 set, every optimizer.step() of train_epoch is followed
\* (after its zero_grad) by a completed fix_si_pnorm, and at every later
\* forward pass and at the return the SI-subset norm equals si_pnorm_0, which
\* is also the returned weights_norm.
C2_StepThenFix ==
    si_pnorm_0 # None =>
        /\ \A k \in Positions("step") :
              k + 2 <= Len(calls) /\ calls[k + 2] = "fix_si_pnorm"
        /\ (Positions("step") # {} /\ pc \in {"criterion", "return", "done"})
              => get_si_params_norm(params) = si_pnorm_0
        /\ (Positions("step") # {} /\ pc = "done")
              => result[1].weights_norm = si_pnorm_0

\* C3: with fbgd, no optimizer.step() and no zero_grad() happens while the
\* batches are processed and exactly one step, followed by zero_grad, happens
\* after the last batch; without fbgd every batch's forward/backward is
\* followed by exactly one step and its zero_grad, and no step happens
\* outside a batch.
C3_StepDiscipline ==
    /\ (fbgd /\ pc \in {"for", "criterion", "update", "account", "log", "save", "tail"})
          => Positions("step") = {} /\ Positions("zero_grad") \subseteq {1}
    /\ (fbgd /\ LoopDone /\ pc # "tail")
          => \E k \in 1..Len(calls) :
                /\ Positions("step") = {k}
                /\ Positions("zero_grad") = {1, k + 1}
                /\ \A j \in Positions("forward") \cup Positions("backward") : j < k
    /\ ~fbgd
          => /\ \A k \in Positions("step") :
                   /\ k > 2 /\ calls[k - 2] = "forward" /\ calls[k - 1] = "backward"
                   /\ k < Len(calls) /\ calls[k + 1] = "zero_grad"
             /\ \A k \in Positions("forward") :
                   \/ k = Len(calls) /\ pc = "update"
                   \/ k + 2 <= Len(calls) /\ calls[k + 2] = "step"
             /\ Cardinality(Positions("forward")) = IF pc = "criterion" THEN i ELSE i + 1

C3_Witness ==
    /\ fbgd /\ pc = "done" /\ i = 2
    /\ Cardinality(Positions("step")) = 1

\* C4: a finished call with the verbose flag flipped, on the same arguments
\* and a fresh copy of the model, has the same return value, the same
\* sequence of calls, the same checkpoints and the same way of terminating.
C4_VerboseSideChannel ==
    (history # <<>> /\ pc \in {"done", "error"}) => Outcome = history[1]

\* the batches processed so far (the current one included once accounted)
Accounted == IF pc \in {"criterion", "update", "account"} THEN i ELSE i + 1

SizesOf(bs) == [k \in 1..Len(bs) |-> bs[k].size]

LossesOf(bs) == [k \in 1..Len(bs) |-> bs[k].mean_loss * bs[k].size]

HitsOf(bs) == [k \in 1..Len(bs) |-> bs[k].hits]

\* C5: after every batch num_objects_current is the sum of the sizes of the
\* batches processed so far, and the returned loss is the sum of the batches'
\* summed losses (mean loss times size) divided by the number of examples
\* processed, with accuracy 100 * correct / processed (None when regression).
C5_Accumulation ==
    /\ (pc \notin {"call", "error"})
          => num_objects_current = SumSeq(SizesOf(SubSeq(Yielded, 1, Accounted)))
    /\ pc = "done"
          => /\ RatEq(result[1].loss,
                      <<SumSeq(LossesOf(Yielded)), SumSeq(SizesOf(Yielded))>>)
             /\ IF regression THEN result[1].accuracy = <<>>
                ELSE RatEq(result[1].accuracy,
                           <<100 * SumSeq(HitsOf(Yielded)), SumSeq(SizesOf(Yielded))>>)

C5_Witness ==
    /\ pc = "done" /\ ~fbgd /\ ~regression /\ i = 1
    /\ batch.size = 2 /\ result[1].loss = <<4, 3>>

\* -------------------------------------------------------- SAM_train_epoch
SamInit ==
    /\ loader \in Loaders
    /\ regression \in BOOLEAN
    /\ verbose \in BOOLEAN
    /\ subset \in SubsetVals
    /\ fbgd \in BOOLEAN
    /\ save_freq_int \in 0..MaxSaveFreq
    /\ si_pnorm_0 \in SiVals
    /\ FreshLocals
    /\ training = FALSE /\ params = InitParams
    /\ calls = <<>> /\ checkpoints = <<>> /\ stdout = <<>>
    /\ pc = "sam_call" /\ error = "none" /\ result = <<>> /\ history = <<>>
    /\ IdleBn /\ IdleRep /\ IdleUtil

\* lines 261-279
SamStart ==
    /\ pc = "sam_call"
    /\ loss_sum' = 0 /\ correct' = 0 /\ verb_stage' = 0 /\ save_ind' = 0
    /\ num_objects_current' = 0
    /\ training' = TRUE
    /\ num_batches' = IF subset = None THEN Len(loader)
                      ELSE (Len(loader) * subset) \div 100
    /\ wrapper' = IF verbose THEN "tqdm"
                  ELSE IF subset # None THEN "islice" ELSE "DataLoader"
    /\ reduction' = IF fbgd THEN "sum" ELSE "mean"
    /\ params' = zero_grad(params)
    /\ calls' = Append(calls, "zero_grad")
    /\ pc' = "sam_for"
    /\ UNCHANGED <<argVars, i, batch, loss, checkpoints, stdout, error, result,
                   history, bnVars, repVars, utilVars>>

\* line 281
SamForNext ==
    /\ pc = "sam_for"
    /\ IF i + 1 < Len(Yielded)
       THEN /\ i' = i + 1
            /\ batch' = Yielded[i + 2]
            /\ pc' = "sam_first"
       ELSE /\ pc' = "sam_tail"
            /\ UNCHANGED <<i, batch>>
    /\ UNCHANGED <<argVars, loss_sum, correct, verb_stage, save_ind,
                   num_objects_current, num_batches, wrapper, reduction, loss,
                   modelVars, effectVars, error, result, history, bnVars, repVars, utilVars>>

\* lines 288-291: first forward and backward, at the current point
SamFirstPass ==
    /\ pc = "sam_first"
    /\ loss' = criterion(batch, reduction)
    /\ params' = backward(params, batch.g)
    /\ calls' = calls \o <<"forward", "backward">>
    /\ pc' = "sam_snapshot"
    /\ UNCHANGED <<argVars, loss_sum, correct, verb_stage, save_ind,
                   num_objects_current, num_batches, wrapper, reduction, i, batch,
                   training, checkpoints, stdout, error, result, history,
                   bnVars, repVars, utilVars>>

\* line 294: get_params_data is defined nowhere (the module defines
\* get_si_params_data), so the call raises NameError
SamSnapshot ==
    /\ pc = "sam_snapshot"
    /\ error' = "NameError"
    /\ pc' = "error"
    /\ UNCHANGED <<argVars, localVars, modelVars, effectVars, result, history,
                   bnVars, repVars, utilVars>>

\* lines 357-362; line 362 names model_name, which is not defined
SamAfterLoop ==
    /\ pc = "sam_tail"
    /\ calls' = calls \o TailCalls
    /\ params' = IF fbgd THEN zero_grad(optimizer_step(params)) ELSE params
    /\ IF fbgd /\ si_pnorm_0 # None
       THEN error' = "NameError" /\ pc' = "error"
       ELSE pc' = "sam_return" /\ UNCHANGED error
    /\ UNCHANGED <<argVars, localVars, training, checkpoints, stdout, result,
                   history, bnVars, repVars, utilVars>>

\* lines 364-368
SamReturn ==
    /\ pc = "sam_return"
    /\ IF num_objects_current = 0
       THEN /\ error' = "ZeroDivisionError"
            /\ pc' = "error"
            /\ UNCHANGED <<result, calls>>
       ELSE /\ result' = << [loss |-> <<loss_sum, num_objects_current>>,
                             accuracy |-> IF regression THEN <<>>
                                          ELSE <<100 * correct, num_objects_current>>,
                             weights_norm |-> get_si_params_norm(params)] >>
            /\ calls' = Append(calls, "return")
            /\ pc' = "sam_done"
            /\ UNCHANGED error
    /\ UNCHANGED <<argVars, localVars, modelVars, checkpoints, stdout, history,
                   bnVars, repVars, utilVars>>

SamNext == \/ SamStart \/ SamForNext \/ SamFirstPass \/ SamSnapshot
           \/ SamAfterLoop \/ SamReturn

SpecSAM == SamInit /\ [][SamNext]_vars

\* C6: SAM_train_epoch over a loader that yields at least one batch raises
\* no error: each batch's first forward/backward is followed by the snapshot
\* and the rest of the batch body, and the call returns a result.
C6_SamCompletes ==
    /\ (pc # "sam_call" /\ Len(Yielded) >= 1) => error = "none"
    /\ \A k \in Positions("backward") : k = Len(calls) => pc = "sam_snapshot"

\* --------------------------------------------------------------- bn_update
RatAdd(a, b) == <<a[1] * b[2] + b[1] * a[2], a[2] * b[2]>>

RatSub(a, b) == <<a[1] * b[2] - b[1] * a[2], a[2] * b[2]>>

RatMul(a, b) == <<a[1] * b[1], a[2] * b[2]>>

\* a batch of bn_update's loader: its size and the batch statistics a
\* normalization layer computes on it
BnBatchSet == { [size |-> 1, mean |-> 2, var |-> 1],
                [size |-> 3, mean |-> 5, var |-> 2] }

BnLoaders == UNION { [1..k -> BnBatchSet] : k \in 0..MaxBnBatches }

\* a module of the model: a normalization layer with its configured momentum
\* and running statistics, or a layer of another class
ModuleSet ==
    { [kind |-> "BatchNorm", momentum |-> m, running_mean |-> s, running_var |-> s] :
        m \in {<<1, 10>>, <<1, 2>>}, s \in {<<0, 1>>, <<7, 1>>} }
    \cup { [kind |-> "Linear", momentum |-> <<0, 1>>, running_mean |-> <<0, 1>>,
            running_var |-> <<0, 1>>] }

Models == [1..1 -> ModuleSet] \cup [1..2 -> ModuleSet]

\* issubclass(module.__class__, torch.nn.modules.batchnorm._BatchNorm)
IsBatchNorm(module) == module.kind = "BatchNorm"

\* lines 430-438 with the flag raised for every module
check_bn_Always(model) == TRUE

\* lines 430-438
check_bn(model) == \E l \in 1..Len(model) : IsBatchNorm(model[l])

\* lines 441-444
reset_bn(module) ==
    IF IsBatchNorm(module)
    THEN [module EXCEPT !.running_mean = <<0, 1>>, !.running_var = <<1, 1>>]
    ELSE module

\* lines 447-449: the saved momentum of a normalization layer
_get_momenta(module) == IF IsBatchNorm(module) THEN module.momentum ELSE <<0, 1>>

\* lines 452-454 leaving the momentum as the loop set it
_set_momenta_Skip(module, saved) == module

\* lines 452-454
_set_momenta(module, saved) ==
    IF IsBatchNorm(module) THEN [module EXCEPT !.momentum = saved] ELSE module

\* line 486 evaluated after n += b
BnMomentum_Late(b, seen) == <<b, seen + b + b>>

\* line 486: momentum = b / (n + b)
BnMomentum(b, seen) == <<b, seen + b>>

\* lines 487-488: module.momentum = momentum, for the keys of momenta
SetMomentum(module, m) ==
    IF IsBatchNorm(module) THEN [module EXCEPT !.momentum = m] ELSE module

\* the forward pass of a normalization layer in training mode moves its
\* running statistics towards the batch statistics by its momentum
BnForward(module, b, train) ==
    IF IsBatchNorm(module) /\ train
    THEN LET keep == RatSub(<<1, 1>>, module.momentum)
         IN [module EXCEPT
               !.running_mean = RatAdd(RatMul(keep, @),
                                       RatMul(module.momentum, <<b.mean, 1>>)),
               !.running_var = RatAdd(RatMul(keep, @),
                                      RatMul(module.momentum, <<b.var, 1>>))]
    ELSE module

BnYielded == IF subset = None THEN bn_loader
             ELSE SubSeq(bn_loader, 1, Min(num_batches, Len(bn_loader)))

IdleTrain ==
    /\ loader = <<>> /\ regression = FALSE /\ fbgd = FALSE /\ save_freq_int = 0
    /\ si_pnorm_0 = None
    /\ loss_sum = 0 /\ correct = 0 /\ verb_stage = 0 /\ save_ind = 0
    /\ num_objects_current = 0 /\ wrapper = "DataLoader" /\ reduction = "mean"
    /\ i = -1 /\ batch = NoBatch /\ loss = 0
    /\ training = FALSE /\ params = InitParams
    /\ calls = <<>> /\ checkpoints = <<>> /\ stdout = <<>>
    /\ pc = "idle" /\ error = "none" /\ result = <<>> /\ history = <<>>

BnInit ==
    /\ bn_loader \in BnLoaders
    /\ modules \in Models
    /\ bn_training \in BOOLEAN
    /\ verbose \in BOOLEAN
    /\ subset \in SubsetVals
    /\ bn_before = <<[modules |-> modules, training |-> bn_training]>>
    /\ momenta = <<>> /\ n = 0 /\ bn_k = 0 /\ bn_forwards = 0 /\ num_batches = 0
    /\ bn_pc = "call"
    /\ IdleTrain /\ IdleRep /\ IdleUtil

bnFrame == <<loader, regression, verbose, subset, fbgd, save_freq_int, si_pnorm_0,
             loss_sum, correct, verb_stage, save_ind, num_objects_current,
             wrapper, reduction, i, batch, loss, modelVars, effectVars, ctlVars,
             bn_loader, bn_before, repVars, utilVars>>

\* lines 465-466
BnCheck ==
    /\ bn_pc = "call"
    /\ bn_pc' = IF check_bn(modules) THEN "prepare" ELSE "done"
    /\ UNCHANGED <<bnFrame, modules, bn_training, momenta, n, bn_k, bn_forwards,
                   num_batches>>

\* lines 467-480
BnPrepare ==
    /\ bn_pc = "prepare"
    /\ bn_training' = TRUE
    /\ modules' = [l \in 1..Len(modules) |-> reset_bn(modules[l])]
    /\ momenta' = [l \in 1..Len(modules) |-> _get_momenta(modules[l])]
    /\ n' = 0
    /\ num_batches' = IF subset = None THEN Len(bn_loader)
                      ELSE (Len(bn_loader) * subset) \div 100
    /\ bn_pc' = "loop"
    /\ UNCHANGED <<bnFrame, bn_k, bn_forwards>>

\* lines 481-488: take the next batch and set every layer's momentum, or
\* leave the loop
BnNext ==
    /\ bn_pc = "loop"
    /\ IF bn_k < Len(BnYielded)
       THEN /\ modules' = [l \in 1..Len(modules) |->
                             SetMomentum(modules[l],
                                         BnMomentum(BnYielded[bn_k + 1].size, n))]
            /\ bn_pc' = "forward"
       ELSE /\ bn_pc' = "restore"
            /\ UNCHANGED modules
    /\ UNCHANGED <<bnFrame, bn_training, momenta, n, bn_k, bn_forwards, num_batches>>

\* lines 490-491
BnForwardPass ==
    /\ bn_pc = "forward"
    /\ modules' = [l \in 1..Len(modules) |->
                     BnForward(modules[l], BnYielded[bn_k + 1], bn_training)]
    /\ bn_forwards' = bn_forwards + 1
    /\ n' = n + BnYielded[bn_k + 1].size
    /\ bn_k' = bn_k + 1
    /\ bn_pc' = "loop"
    /\ UNCHANGED <<bnFrame, bn_training, momenta, num_batches>>

\* line 493 followed by a return to the mode the model was called in
BnRestore_ModeToo ==
    /\ bn_pc = "restore"
    /\ modules' = [l \in 1..Len(modules) |-> _set_momenta(modules[l], momenta[l])]
    /\ bn_training' = bn_before[1].training
    /\ bn_pc' = "done"
    /\ UNCHANGED <<bnFrame, momenta, n, bn_k, bn_forwards, num_batches>>

\* line 493
BnRestore ==
    /\ bn_pc = "restore"
    /\ modules' = [l \in 1..Len(modules) |-> _set_momenta(modules[l], momenta[l])]
    /\ bn_pc' = "done"
    /\ UNCHANGED <<bnFrame, bn_training, momenta, n, bn_k, bn_forwards, num_batches>>

BnStep == BnCheck \/ BnPrepare \/ BnNext \/ BnForwardPass \/ BnRestore

SpecBN == BnInit /\ [][BnStep]_vars

BnSizes(k) == [j \in 1..k |-> BnYielded[j].size]

BnWeightedMeans(k) == [j \in 1..k |-> BnYielded[j].size * BnYielded[j].mean]

BnWeightedVars(k) == [j \in 1..k |-> BnYielded[j].size * BnYielded[j].var]

NormLayers == {l \in 1..Len(modules) : modules[l].kind = "BatchNorm"}

\* the model bn_update was called on has no normalization layer
NoNormLayer == \A l \in 1..Len(bn_before[1].modules) :
                  bn_before[1].modules[l].kind # "BatchNorm"

\* C7: in bn_update the momentum every normalization layer carries into the
\* forward pass of the j-th batch is b_j / (b_1 + ... + b_j), and after k >= 1
\* batches each running statistic is (sum of b_j * s_j) / (sum of b_j),
\* whatever the configured momentum and the running statistics before the call.
C7_WeightedAverage ==
    /\ bn_pc = "forward"
          => \A l \in NormLayers :
                RatEq(modules[l].momentum,
                      <<BnYielded[bn_k + 1].size, SumSeq(BnSizes(bn_k + 1))>>)
    /\ (bn_pc \in {"loop", "restore", "done"} /\ bn_k >= 1)
          => \A l \in NormLayers :
                /\ RatEq(modules[l].running_mean,
                         <<SumSeq(BnWeightedMeans(bn_k)), SumSeq(BnSizes(bn_k))>>)
                /\ RatEq(modules[l].running_var,
                         <<SumSeq(BnWeightedVars(bn_k)), SumSeq(BnSizes(bn_k))>>)

C7_Witness ==
    /\ bn_pc = "done" /\ bn_k = 3
    /\ BnSizes(3) = <<1, 3, 1>>
    /\ \E l \in NormLayers :
          /\ bn_before[1].modules[l].running_mean = <<7, 1>>
          /\ bn_before[1].modules[l].momentum = <<1, 10>>
          /\ RatEq(modules[l].running_mean, <<19, 5>>)

\* C8: when bn_update returns on a model with normalization layers, every
\* normalization layer's momentum is the one configured before the call.
C8_MomentumRestored ==
    (bn_pc = "done" /\ ~NoNormLayer)
        => \A l \in NormLayers : modules[l].momentum = bn_before[1].modules[l].momentum

C8_Witness ==
    /\ bn_pc = "done" /\ bn_k = 2
    /\ \E l \in NormLayers : modules[l].momentum = <<1, 10>>

\* C9: on a model without normalization layer bn_update runs no forward
\* pass, takes no batch from the loader and leaves the train/eval mode and
\* the modules as they were.
C9_NoNormLayerNoOp ==
    (bn_pc # "idle" /\ NoNormLayer)
        => /\ bn_forwards = 0 /\ bn_k = 0
           /\ bn_training = bn_before[1].training
           /\ modules = bn_before[1].modules

C9_Witness ==
    /\ bn_pc = "done" /\ NoNormLayer
    /\ Len(bn_loader) = 2 /\ ~bn_training

\* --------------------------------------------------------------- do_report
\* lines 79-94 with the second band ending at 110
do_report_WideBand(ep) ==
    IF ep < 20 THEN TRUE
    ELSE IF ep < 110 THEN ep % 5 = 0
    ELSE IF ep < 200 THEN ep % 10 = 0
    ELSE IF ep < 1000 THEN ep % 50 = 0
    ELSE IF ep < 2000 THEN ep % 100 = 0
    ELSE IF ep < 10000 THEN ep % 500 = 0
    ELSE ep % 1000 = 0

\* lines 79-94
do_report(ep) ==
    IF ep < 20 THEN TRUE
    ELSE IF ep < 100 THEN ep % 5 = 0
    ELSE IF ep < 200 THEN ep % 10 = 0
    ELSE IF ep < 1000 THEN ep % 50 = 0
    ELSE IF ep < 2000 THEN ep % 100 = 0
    ELSE IF ep < 10000 THEN ep % 500 = 0
    ELSE ep % 1000 = 0

RepInit ==
    /\ epoch \in 0..MaxEpoch
    /\ report = FALSE /\ rep_pc = "call"
    /\ IdleTrain /\ IdleBn /\ verbose = FALSE /\ subset = None /\ num_batches = 0
    /\ IdleUtil

DoReport ==
    /\ rep_pc = "call"
    /\ report' = do_report(epoch)
    /\ rep_pc' = "done"
    /\ UNCHANGED <<trainVars, bnVars, epoch, utilVars>>

SpecReport == RepInit /\ [][DoReport]_vars

\* the bands of the decimation: <<first epoch, period>>
Bands == { <<20, 5>>, <<100, 10>>, <<200, 50>>, <<1000, 100>>, <<2000, 500>>,
           <<10000, 1000>> }

\* the band an epoch >= 20 lies in: the one with the largest first epoch <= ep
BandOf(ep) == CHOOSE b \in Bands :
                 b[1] <= ep /\ \A c \in Bands : c[1] <= ep => c[1] <= b[1]

\* C10: do_report is true for every epoch < 20, for epoch >= 20 it is true
\* exactly when the epoch is divisible by the period of its band, so it is
\* true at 20, 100, 200, 1000, 2000, 10000 and false at 21.
C10_ReportDecimation ==
    rep_pc = "done" =>
        /\ epoch < 20 => report
        /\ epoch >= 20 => (report <=> epoch % BandOf(epoch)[2] = 0)
        /\ epoch \in {20, 100, 200, 1000, 2000, 10000} => report
        /\ epoch = 21 => ~report

C10_Witness == rep_pc = "done" /\ epoch = 10000 /\ report

\* ------------------------------------------------------------ fix_si_pnorm
\* the variables of the epoch runner that the calls of single functions
\* below do not use
IdleRunner ==
    /\ loader = <<>> /\ regression = FALSE /\ verbose = FALSE /\ subset = None
    /\ save_freq_int = 0
    /\ loss_sum = 0 /\ correct = 0 /\ verb_stage = 0 /\ save_ind = 0
    /\ num_objects_current = 0 /\ num_batches = 0
    /\ wrapper = "DataLoader" /\ reduction = "mean"
    /\ i = -1 /\ batch = NoBatch /\ loss = 0
    /\ training = TRUE
    /\ checkpoints = <<>> /\ stdout = <<>>
    /\ result = <<>> /\ history = <<>>

Param(name, data, grad) == [name |-> name, data |-> data, grad |-> grad]

\* values of two SI-marked parameters whose norm is 0 or 5
ConvPairs == { <<0, 0>>, <<3, 4>>, <<4, 3>>, <<0, 5>>, <<5, 0>>, <<-3, 4>> }

\* models with two SI-marked parameters and one other, in every order in
\* which named_parameters can list them
FixModels ==
    UNION { { << Param("conv.weight", c[1], 0), Param("fc.weight", f, 0),
                 Param("layer1.conv1.weight", c[2], 0) >>,
              << Param("fc.weight", f, 0), Param("conv.weight", c[1], 0),
                 Param("layer1.conv1.weight", c[2], 0) >>,
              << Param("conv.weight", c[1], 0),
                 Param("layer1.conv1.weight", c[2], 0), Param("fc.weight", f, 0) >> }
            : c \in ConvPairs, f \in {1, 2} }

FixInit ==
    /\ params \in FixModels
    /\ si_pnorm_0 \in {5 * t : t \in 1..MaxTarget}
    /\ before = params
    /\ fbgd = FALSE /\ calls = <<>>
    /\ pc = "fix_call" /\ error = "none"
    /\ IdleRunner /\ IdleBn /\ IdleRep
    /\ r = 0 /\ alpha = 0 /\ snapshot_fn = "none" /\ grad_alias = FALSE
    /\ saved_params = <<>> /\ saved_grads = <<>> /\ grad_norm = 0
    /\ first_g = <<>> /\ second_g = <<>>
    /\ IdlePred /\ IdleSched

\* lines 114-120: the division by a zero numpy norm raises nothing
FixCall ==
    /\ pc = "fix_call"
    /\ params' = fix_si_pnorm(params, si_pnorm_0)
    /\ calls' = Append(calls, "fix_si_pnorm")
    /\ pc' = "fix_done"
    /\ UNCHANGED <<argVars, localVars, training, checkpoints, stdout, error,
                   result, history, bnVars, repVars, utilVars>>

SpecFix == FixInit /\ [][FixCall]_vars

\* C11: fix_si_pnorm on a model whose SI-subset norm is 0 ends in a
\* divide-by-zero error and leaves every parameter value as it was.
C11_ZeroNormFails ==
    (pc = "fix_done" /\ get_si_params_norm(before) = 0)
        => /\ error = "ZeroDivisionError"
           /\ \A k \in 1..Len(params) : params[k].data = before[k].data

\* -------------------------------------------------------------- d_schedule
\* a <= b for rationals with positive denominators
RatLe(a, b) == a[1] * b[2] <= b[1] * a[2]

\* lines 531-542 with the first comparison strict
d_schedule_Strict(ep, lr0, eps, pp) ==
    LET t == <<ep, eps>>
        factor == IF ~RatLe(<<1, 4>>, t) THEN <<1, 1>>
                  ELSE IF RatLe(t, <<1, 2>>) THEN <<1, pp>>
                  ELSE IF RatLe(t, <<3, 4>>) THEN <<1, pp * pp>>
                  ELSE <<1, pp * pp * pp>>
    IN RatMul(<<lr0, 1>>, factor)

\* lines 531-542
d_schedule(ep, lr0, eps, pp) ==
    LET t == <<ep, eps>>
        factor == IF RatLe(t, <<1, 4>>) THEN <<1, 1>>
                  ELSE IF RatLe(t, <<1, 2>>) THEN <<1, pp>>
                  ELSE IF RatLe(t, <<3, 4>>) THEN <<1, pp * pp>>
                  ELSE <<1, pp * pp * pp>>
    IN RatMul(<<lr0, 1>>, factor)

\* a training run asks for the learning rate of epochs 0, 1, ..., epochs
SchedInit ==
    /\ lr_init \in 1..MaxLr
    /\ epochs \in 1..MaxTrainEpochs
    /\ p \in {1, 2, 10}
    /\ epoch = 0
    /\ lr = <<lr_init, 1>> /\ prev_lr = <<lr_init, 1>>
    /\ sched_pc = "call"
    /\ report = FALSE /\ rep_pc = "idle"
    /\ IdleTrain /\ IdleBn /\ verbose = FALSE /\ subset = None /\ num_batches = 0
    /\ IdleSam /\ IdlePred

SchedCall ==
    /\ sched_pc = "call"
    /\ prev_lr' = lr
    /\ lr' = d_schedule(epoch, lr_init, epochs, p)
    /\ sched_pc' = "set"
    /\ UNCHANGED <<trainVars, bnVars, repVars, samVars, predVars, lr_init, epochs, p>>

SchedAdvance ==
    /\ sched_pc = "set"
    /\ epoch < epochs
    /\ epoch' = epoch + 1
    /\ sched_pc' = "call"
    /\ UNCHANGED <<trainVars, bnVars, report, rep_pc, samVars, predVars,
                   lr_init, epochs, p, lr, prev_lr>>

SchedNext == SchedCall \/ SchedAdvance

SpecSched == SchedInit /\ [][SchedNext]_vars

\* the number of the thresholds epochs/4, epochs/2, 3*epochs/4 strictly
\* below the epoch
ThresholdsBelow ==
    (IF 4 * epoch > epochs THEN 1 ELSE 0) + (IF 2 * epoch > epochs THEN 1 ELSE 0)
        + (IF 4 * epoch > 3 * epochs THEN 1 ELSE 0)

Pow(x, k) == IF k = 0 THEN 1 ELSE IF k = 1 THEN x ELSE IF k = 2 THEN x * x ELSE x * x * x

\* C12: d_schedule returns lr_init / p^k, k the number of thresholds among
\* epochs/4, epochs/2, 3*epochs/4 strictly below epoch; for p >= 1 (and a
\* positive lr_init) the value never rises from one epoch to the next, it is
\* lr_init at exactly t = 0.25 and lr_init/p at t = 0.26 with p = 10.
C12_DiscreteSchedule ==
    sched_pc = "set" =>
        /\ RatEq(lr, <<lr_init, Pow(p, ThresholdsBelow)>>)
        /\ RatLe(lr, prev_lr)
        /\ 4 * epoch = epochs => RatEq(lr, <<lr_init, 1>>)
        /\ (epochs = 100 /\ epoch = 26 /\ p = 10) => RatEq(lr, <<lr_init, 10>>)

C12_Witness ==
    /\ sched_pc = "set" /\ epochs = 100 /\ epoch = 26 /\ p = 10 /\ lr_init = 1
    /\ RatEq(lr, <<1, 10>>) /\ RatEq(prev_lr, <<1, 1>>)

\* ------------------------------------------- the batch body of SAM_train_epoch
\* lines 224-231: the values and gradients of the SI-marked parameters, in
\* the order of named_parameters
IsSIParam(pr) == IsConv(pr.name)

get_si_params_data(ps) ==
    LET si == SelectSeq(ps, IsSIParam)
    IN [params |-> [k \in 1..Len(si) |-> si[k].data],
        grads |-> [k \in 1..Len(si) |-> si[k].grad]]

\* line 294 calls get_params_data, which the module does not define; this is
\* the function the design describes: the values and gradients of all
\* parameters
get_params_data(ps) ==
    [params |-> [k \in 1..Len(ps) |-> ps[k].data],
     grads |-> [k \in 1..Len(ps) |-> ps[k].grad]]

\* line 296: torch.norm of the concatenated gradients
TorchNorm(gs) == Sqrt(SumSeq([k \in 1..Len(gs) |-> gs[k] * gs[k]]))

\* lines 239-241
update_si_params_data(ps, gn, rr) ==
    [k \in 1..Len(ps) |-> [ps[k] EXCEPT !.data = @ + (rr * ps[k].grad) \div gn]]

\* lines 234-236: the first SI-marked parameter whose enumerate index lies
\* beyond the saved list (0 when there is none); params[i] raises IndexError
\* there
FirstBadIndex(ps, sp) ==
    LET bad == {k \in 1..Len(ps) : IsConv(ps[k].name) /\ k > Len(sp)}
    IN IF bad = {} THEN 0 ELSE CHOOSE k \in bad : \A j \in bad : k <= j

\* lines 233-237: the parameters handled before the loop ends or fails; al
\* is alpha as a rational
set_si_params_data(ps, sp, sg, al) ==
    LET bad == FirstBadIndex(ps, sp)
    IN [k \in 1..Len(ps) |->
          IF IsConv(ps[k].name) /\ (bad = 0 \/ k < bad)
          THEN [ps[k] EXCEPT
                  !.data = sp[k],
                  !.grad = (al[1] * @ + (al[2] - al[1]) * sg[k]) \div al[2]]
          ELSE ps[k]]

\* loss.backward() with one gradient per parameter
backward_each(ps, gs) == [k \in 1..Len(ps) |-> [ps[k] EXCEPT !.grad = @ + gs[k]]]

\* the saved gradient tensors after a later backward pass: p.grad.data shares
\* its storage with p.grad, so a backward pass that accumulates in place also
\* changes the saved list
AliasedGrads(fn, ps, sg, gs) ==
    IF fn = "get_params_data"
    THEN [k \in 1..Len(sg) |-> sg[k] + gs[k]]
    ELSE LET idx == SelectSeq([k \in 1..Len(ps) |-> k],
                              LAMBDA k : IsConv(ps[k].name))
         IN [j \in 1..Len(sg) |-> sg[j] + gs[idx[j]]]

\* the models: up to MaxParams parameters, at least one of them SI-marked
BodyModels ==
    UNION { { [k \in 1..len |-> Param(IF si[k] THEN "conv.weight" ELSE "fc.weight",
                                      10 * k, 0)]
              : si \in {f \in [1..len -> BOOLEAN] : \E k \in 1..len : f[k]} }
            : len \in 1..MaxParams }

\* first-pass gradients: their norm, and the norm of every part of them, is
\* 6, 8 or 10
GradVecs(len) ==
    { v \in [1..len -> {0, 6, 8}] :
        /\ Cardinality({k \in 1..len : v[k] = 6}) <= 1
        /\ Cardinality({k \in 1..len : v[k] = 8}) <= 1
        /\ \E k \in 1..len : v[k] # 0 }

BodyInit ==
    /\ params \in BodyModels
    /\ first_g \in GradVecs(Len(params))
    /\ TorchNorm(get_si_params_data(backward_each(params, first_g)).grads) > 0
    /\ second_g = [k \in 1..Len(params) |-> 2 * k]
    /\ r \in {120, 240}
    /\ alpha \in {<<0, 2>>, <<1, 2>>, <<2, 2>>}
    /\ snapshot_fn \in {"get_params_data", "get_si_params_data"}
    /\ grad_alias \in BOOLEAN
    /\ fbgd \in BOOLEAN
    /\ batch \in BatchSet
    /\ si_pnorm_0 = None
    /\ reduction = (IF fbgd THEN "sum" ELSE "mean")
    /\ saved_params = <<>> /\ saved_grads = <<>> /\ grad_norm = 0 /\ before = <<>>
    /\ loader = <<>> /\ regression = FALSE /\ verbose = FALSE /\ subset = None
    /\ save_freq_int = 0
    /\ loss_sum = 0 /\ correct = 0 /\ verb_stage = 0 /\ save_ind = 0
    /\ num_objects_current = 0 /\ num_batches = 1 /\ wrapper = "DataLoader"
    /\ i = 0 /\ loss = 0
    /\ training = TRUE
    /\ calls = <<>> /\ checkpoints = <<>> /\ stdout = <<>>
    /\ pc = "body_first" /\ error = "none" /\ result = <<>> /\ history = <<>>
    /\ IdleBn /\ IdleRep /\ IdlePred /\ IdleSched

bodyFrame == <<loader, regression, verbose, subset, fbgd, save_freq_int, si_pnorm_0,
               correct, verb_stage, save_ind, num_objects_current, num_batches,
               wrapper, reduction, i, batch, training, checkpoints, stdout,
               result, history, r, alpha, snapshot_fn, grad_alias, first_g,
               second_g, bnVars, repVars, predVars, schedVars>>

\* lines 288-291
BodyFirstPass ==
    /\ pc = "body_first"
    /\ loss' = criterion(batch, reduction)
    /\ params' = backward_each(params, first_g)
    /\ calls' = calls \o <<"forward", "backward">>
    /\ pc' = "body_snapshot"
    /\ UNCHANGED <<bodyFrame, loss_sum, error, saved_params, saved_grads,
                   grad_norm, before>>

\* line 294
BodySnapshot ==
    /\ pc = "body_snapshot"
    /\ LET data == IF snapshot_fn = "get_params_data"
                   THEN get_params_data(params) ELSE get_si_params_data(params)
       IN saved_params' = data.params /\ saved_grads' = data.grads
    /\ before' = params
    /\ calls' = Append(calls, "snapshot")
    /\ pc' = "body_ascent"
    /\ UNCHANGED <<bodyFrame, loss_sum, loss, error, params, grad_norm>>

\* lines 296-298
BodyAscent ==
    /\ pc = "body_ascent"
    /\ grad_norm' = TorchNorm(saved_grads)
    /\ params' = update_si_params_data(params, TorchNorm(saved_grads), r)
    /\ calls' = Append(calls, "ascent")
    /\ pc' = "body_second"
    /\ UNCHANGED <<bodyFrame, loss_sum, loss, error, saved_params, saved_grads,
                   before>>

\* lines 306-316: the second backward pass adds to the gradients of the first
BodySecondPass ==
    /\ pc = "body_second"
    /\ loss' = criterion(batch, reduction)
    /\ loss_sum' = loss_sum + (IF fbgd THEN criterion(batch, reduction)
                               ELSE criterion(batch, reduction) * batch.size)
    /\ params' = backward_each(params, second_g)
    /\ saved_grads' = IF grad_alias
                      THEN AliasedGrads(snapshot_fn, params, saved_grads, second_g)
                      ELSE saved_grads
    /\ calls' = calls \o <<"forward", "backward">>
    /\ pc' = "body_restore"
    /\ UNCHANGED <<bodyFrame, error, saved_params, grad_norm, before>>

\* line 319
BodyRestore ==
    /\ pc = "body_restore"
    /\ params' = set_si_params_data(params, saved_params, saved_grads, alpha)
    /\ IF FirstBadIndex(params, saved_params) # 0
       THEN error' = "IndexError" /\ pc' = "error" /\ UNCHANGED calls
       ELSE /\ calls' = Append(calls, "restore")
            /\ pc' = "body_step"
            /\ UNCHANGED error
    /\ UNCHANGED <<bodyFrame, loss_sum, loss, saved_params, saved_grads,
                   grad_norm, before>>

\* lines 322-327
BodyStep ==
    /\ pc = "body_step"
    /\ IF fbgd
       THEN UNCHANGED <<params, calls>>
       ELSE /\ params' = zero_grad(optimizer_step(params))
            /\ calls' = calls \o <<"step", "zero_grad">>
    /\ pc' = "body_done"
    /\ UNCHANGED <<bodyFrame, loss_sum, loss, error, saved_params, saved_grads,
                   grad_norm, before>>

BodyNext == \/ BodyFirstPass \/ BodySnapshot \/ BodyAscent \/ BodySecondPass
            \/ BodyRestore \/ BodyStep

SpecSamBody == BodyInit /\ [][BodyNext]_vars

\* C13: after the restore step of the SAM batch body every parameter,
\* SI-marked or not, has the value it had before the ascent step.
C13_RestoreIsIdentity ==
    pc = "body_step" => \A k \in 1..Len(params) : params[k].data = before[k].data

\* C14: the gradient each restored parameter carries into optimizer.step()
\* is alpha * g2 + (1 - alpha) * g1, g1 and g2 the gradients of the first and
\* of the second backward pass alone.
C14_BlendedGradient ==
    (pc = "body_step" /\ snapshot_fn = "get_params_data")
        => \A k \in 1..Len(params) :
              IsConv(params[k].name)
                  => alpha[2] * params[k].grad
                       = alpha[1] * second_g[k] + (alpha[2] - alpha[1]) * first_g[k]

\* C15: a snapshot taken by get_si_params_data and handed to
\* set_si_params_data gives every SI-marked parameter its own saved value
\* back, wherever the other parameters stand in the model's parameter order.
C15_SnapshotRoundTrip ==
    snapshot_fn = "get_si_params_data"
        => /\ error # "IndexError"
           /\ pc = "body_step"
                 => \A k \in 1..Len(params) :
                       IsConv(params[k].name) => params[k].data = before[k].data

\* ------------------------------------------------------------- predictions
\* the generator state after a stochastic forward pass has drawn from it
RngModulus == 7

NextRng(x) == (x + 1) % RngModulus

\* line 506 with the truth value of the seed as the test
SeedGiven_Truthy(sd) == sd # None /\ sd # 0

\* line 506: seed is not None
SeedGiven(sd) == sd # None

PredInit ==
    /\ test_loader \in UNION { [1..k -> {1, 2}] : k \in 0..MaxPredBatches }
    /\ seed \in {None, 0, 1}
    /\ rng \in {3, 4}
    /\ regression \in BOOLEAN
    /\ pred_k = 0 /\ pred_trace = <<>> /\ pred_pc = "for"
    /\ loader = <<>> /\ fbgd = FALSE /\ save_freq_int = 0 /\ si_pnorm_0 = None
    /\ verbose = FALSE /\ subset = None
    /\ loss_sum = 0 /\ correct = 0 /\ verb_stage = 0 /\ save_ind = 0
    /\ num_objects_current = 0 /\ num_batches = 0
    /\ wrapper = "DataLoader" /\ reduction = "mean"
    /\ i = -1 /\ batch = NoBatch /\ loss = 0
    /\ training = FALSE /\ params = InitParams
    /\ calls = <<>> /\ checkpoints = <<>> /\ stdout = <<>>
    /\ pc = "idle" /\ error = "none" /\ result = <<>> /\ history = <<>>
    /\ IdleBn /\ IdleRep /\ IdleSam /\ IdleSched

predFrame == <<argVars, localVars, modelVars, effectVars, pc, result, history,
               bnVars, repVars, samVars, schedVars, test_loader, seed>>

\* line 505: the loop head takes the next batch or leaves the loop
PredNext ==
    /\ pred_pc = "for"
    /\ pred_pc' = IF pred_k < Len(test_loader) THEN "seed" ELSE "return"
    /\ UNCHANGED <<predFrame, error, rng, pred_k, pred_trace>>

\* lines 506-507
PredSeed ==
    /\ pred_pc = "seed"
    /\ IF SeedGiven(seed)
       THEN /\ rng' = seed
            /\ pred_trace' = Append(pred_trace, [op |-> "manual_seed", v |-> seed])
       ELSE UNCHANGED <<rng, pred_trace>>
    /\ pred_pc' = "forward"
    /\ UNCHANGED <<predFrame, error, pred_k>>

\* lines 508-516: the forward pass starts from the current generator state
PredForward ==
    /\ pred_pc = "forward"
    /\ pred_trace' = Append(pred_trace, [op |-> "forward", v |-> rng])
    /\ rng' = NextRng(rng)
    /\ pred_k' = pred_k + 1
    /\ pred_pc' = "for"
    /\ UNCHANGED <<predFrame, error>>

\* line 517: np.vstack of an empty list raises ValueError
PredReturn ==
    /\ pred_pc = "return"
    /\ IF pred_k = 0
       THEN error' = "ValueError" /\ pred_pc' = "error"
       ELSE pred_pc' = "done" /\ UNCHANGED error
    /\ UNCHANGED <<predFrame, rng, pred_k, pred_trace>>

PredStep == PredNext \/ PredSeed \/ PredForward \/ PredReturn

SpecPred == PredInit /\ [][PredStep]_vars

PredOps(op) == {j \in 1..Len(pred_trace) : pred_trace[j].op = op}

\* C16: in predictions with a seed every forward call is immediately preceded
\* by one manual_seed(seed), so there are as many seed resets as batches and
\* every forward pass starts from the seed; with seed=None the seed is never
\* set.
C16_SeedPerBatch ==
    /\ seed # None
          => /\ \A j \in PredOps("forward") :
                   /\ j > 1 /\ pred_trace[j - 1] = [op |-> "manual_seed", v |-> seed]
                   /\ pred_trace[j].v = seed
             /\ \A j \in PredOps("manual_seed") :
                   \/ j = Len(pred_trace) /\ pred_pc = "forward"
                   \/ j < Len(pred_trace) /\ pred_trace[j + 1].op = "forward"
             /\ pred_pc = "done"
                   => Cardinality(PredOps("manual_seed")) = Len(test_loader)
    /\ seed = None => PredOps("manual_seed") = {}

C16_Witness ==
    /\ pred_pc = "done" /\ seed = 0 /\ Len(test_loader) = 3
    /\ Cardinality(PredOps("manual_seed")) = 3
    /\ \A j \in PredOps("forward") : pred_trace[j].v = 0

\* ------------------------------------- train_epoch on an epoch of 100 batches
LongBatches == 100

LongSaveFreq == 4

\* train_epoch(loader, ..., save_freq_int=4) on a loader of 100 batches
LongInit ==
    /\ loader = [k \in 1..LongBatches |-> [size |-> 1, mean_loss |-> 2, hits |-> 1, g |-> 1]]
    /\ regression = FALSE
    /\ verbose = FALSE
    /\ subset = None
    /\ fbgd \in BOOLEAN
    /\ save_freq_int = LongSaveFreq
    /\ si_pnorm_0 \in SiVals
    /\ FreshLocals
    /\ training = FALSE /\ params = InitParams
    /\ calls = <<>> /\ checkpoints = <<>> /\ stdout = <<>>
    /\ pc = "call" /\ error = "none" /\ result = <<>> /\ history = <<>>
    /\ IdleBn /\ IdleRep /\ IdleUtil

TrainLongInit == TrainInit \/ LongInit

SpecTrainLong == TrainLongInit /\ [][TrainNext]_vars

Ceil(a, b) == (a + b - 1) \div b

\* the position in the call trace of the k-th checkpoint write
NthSave(k) == CHOOSE q \in Positions("save") :
                 Cardinality({j \in Positions("save") : j <= q}) = k

\* the 1-based number of the batch in whose iteration the k-th checkpoint was
\* written: the forward passes made before the write
BatchOfSave(k) == Cardinality({j \in Positions("forward") : j < NthSave(k)})

\* the calls made in the iteration that wrote the k-th checkpoint, before it
IterationBefore(k) ==
    LET q == NthSave(k)
        f == CHOOSE j \in Positions("forward") :
                 j < q /\ \A m \in Positions("forward") : m < q => m <= j
    IN {calls[j] : j \in f..(q - 1)}

\* C17: if num_batches >= save_freq_int > 0, the checkpoint with segment index
\* k (1 <= k <= save_freq_int-1) is written in the iteration of batch number
\* ceil(k * num_batches / save_freq_int), after that batch's optimizer step
\* (and SI fix) when fbgd is off, and all of them are written once the loop is
\* over; with 100 batches and 4 segments the writes follow batches 25, 50, 75.
C17_CheckpointBatches ==
    (save_freq_int > 0 /\ num_batches >= save_freq_int)
        => /\ Cardinality(Positions("save")) = Len(checkpoints)
           /\ \A k \in 1..Len(checkpoints) :
                 /\ checkpoints[k].index = k
                 /\ k <= save_freq_int - 1
                 /\ BatchOfSave(k) = Ceil(k * num_batches, save_freq_int)
                 /\ ~fbgd => "step" \in IterationBefore(k)
                 /\ (~fbgd /\ si_pnorm_0 # None)
                       => "fix_si_pnorm" \in IterationBefore(k)
           /\ LoopDone => Len(checkpoints) = save_freq_int - 1

C17_Witness ==
    /\ pc = "done" /\ num_batches = 100 /\ save_freq_int = 4 /\ ~fbgd
    /\ Len(checkpoints) = 3
    /\ [k \in 1..3 |-> BatchOfSave(k)] = <<25, 50, 75>>

\* ------------------------------ train_epoch and SAM_train_epoch, either one
\* SAM_train_epoch(loader, model, criterion, optimizer, r) with alpha=1.0
SamCallInit ==
    /\ loader \in Loaders
    /\ regression \in BOOLEAN
    /\ verbose \in BOOLEAN
    /\ subset \in SubsetVals
    /\ fbgd \in BOOLEAN
    /\ save_freq_int \in 0..MaxSaveFreq
    /\ si_pnorm_0 \in SiVals
    /\ r = 120 /\ alpha = <<2, 2>>
    /\ snapshot_fn = "none" /\ grad_alias = FALSE
    /\ saved_params = <<>> /\ saved_grads = <<>> /\ grad_norm = 0
    /\ first_g = <<>> /\ second_g = <<>> /\ before = <<>>
    /\ FreshLocals
    /\ training = FALSE /\ params = InitParams
    /\ calls = <<>> /\ checkpoints = <<>> /\ stdout = <<>>
    /\ pc = "sam_call" /\ error = "none" /\ result = <<>> /\ history = <<>>
    /\ IdleBn /\ IdleRep /\ IdlePred /\ IdleSched

EpochInit == TrainInit \/ SamCallInit

EpochNext == TrainNext \/ SamNext

SpecEpoch == EpochInit /\ [][EpochNext]_vars

\* the run is inside a batch's iteration, before line 187 (line 333) counted it
MidBatch == \/ pc \in {"criterion", "update", "account", "sam_first", "sam_snapshot"}
            \/ pc = "error" /\ calls[Len(calls)] \in {"forward", "backward"}

\* the batches processed so far
Processed == IF MidBatch THEN i ELSE i + 1

\* everything C18 states except the bound on save_ind
CheckpointOrder ==
    /\ \A k \in 1..(Len(checkpoints) - 1) : BatchOfSave(k) < BatchOfSave(k + 1)
    /\ Cardinality(Positions("save")) = Len(checkpoints)
    /\ SavedIndices = UpTo(save_ind)
    /\ save_freq_int <= 1 => checkpoints = <<>>

\* C18 as stated: in every state of a train_epoch or SAM_train_epoch run at
\* most one checkpoint is written per batch, the indices written are exactly
\* 1..save_ind in increasing order, save_ind <= min(batches processed,
\* save_freq_int-1), and nothing is written when save_freq_int <= 1.
C18_Original ==
    /\ CheckpointOrder
    /\ save_ind <= Min(Processed, save_freq_int - 1)

\* C18 amended: in every state of a train_epoch or SAM_train_epoch run at
\* most one checkpoint is written per batch, the indices written are exactly
\* 1..save_ind in increasing order, save_ind <= min(batches processed,
\* max(save_freq_int-1, 0)), and nothing is written when save_freq_int <= 1.
C18_CheckpointInvariants ==
    /\ CheckpointOrder
    /\ save_ind <= Min(Processed, IF save_freq_int >= 1 THEN save_freq_int - 1 ELSE 0)

C18_Witness ==
    /\ pc = "for" /\ save_freq_int = 3 /\ Processed = 2
    /\ save_ind = 2 /\ SavedIndices = <<1, 2>>
    /\ BatchOfSave(1) = 1 /\ BatchOfSave(2) = 2

\* ------------------------------------------- the mode bn_update leaves behind
\* C19: when bn_update has returned on a model with at least one
\* normalization layer the model is in training mode, whatever mode it was in
\* at the call; on a model without normalization layers the mode is the one
\* it had at the call.
C19_ModeAfterBnUpdate ==
    bn_pc = "done"
        => IF NoNormLayer THEN bn_training = bn_before[1].training
                          ELSE bn_training = TRUE

C19_Witness ==
    /\ bn_pc = "done" /\ ~NoNormLayer /\ bn_forwards = 2
    /\ bn_before[1].training = FALSE /\ bn_training = TRUE

====
